---- MODULE Spec2Model ----
(***************************************************************************)
(* Hybrid decision core of the retail forecasting dashboard:               *)
(*   backend/disruption.py           calculate_safe_purchase_window        *)
(*   backend/scenario_simulation.py  ScenarioSimulator                     *)
(*   pages/2_Forecast_and_Risk.py    hybrid purchase recommendation        *)
(*                                                                         *)
(* Number representation.  The code computes on float64 arrays; the model  *)
(* is exact fixed point:                                                   *)
(*   risk, threshold, risk_adjustment : hundredths (0.3 is 30)             *)
(*   demand_multiplier                 : hundredths (2.2 is 220)           *)
(*   demand, modified_demand           : hundredths of a unit; inputs are  *)
(*                                       whole units (100 units is 10000), *)
(*                                       so multiplying stays exact        *)
(*   a mean                            : the pair [num, den]               *)
(* Binary rounding of float64 (0.2 + 0.1 is 0.30000000000000004) is not    *)
(* modelled.  Positions are the code's 0-based indices; a Python sequence  *)
(* s is the TLA+ sequence with s[i] (Python) = s[i + 1] (TLA+).            *)
(***************************************************************************)
EXTENDS Integers, Sequences, FiniteSets

VARIABLES
    page,             \* the dashboard page serving the request
    dates,            \* dates argument: day numbers, strictly increasing
    demand,           \* baseline demand series (predicted_demand)
    risk,             \* baseline risk series (risk_probability)
    threshold,        \* risk_threshold
    window,           \* result of calculate_safe_purchase_window
    hybrid,           \* the hybrid purchase recommendation of page 2
    scenario_type,    \* apply_scenario argument
    severity,         \* apply_scenario argument
    modified_demand,  \* first component returned by apply_scenario
    modified_risk,    \* second component returned by apply_scenario
    applied,          \* outcome of the apply_scenario call
    recommendation,   \* result of get_recommendation
    registry,         \* the class attribute ScenarioSimulator.SCENARIOS
    available,        \* result of get_available_scenarios
    described,        \* result of get_scenario_description
    history,          \* historical_df handed to create_future_dataframe
    horizon_days,     \* horizon_days handed to create_future_dataframe
    future_df,        \* the table create_future_dataframe returns, input_df
                      \* of forecast_demand and predict_disruption
    forecast_model,   \* what load_forecast_model returns
    risk_model,       \* what load_risk_model returns
    demand_call,      \* result of forecast_demand
    risk_call,        \* result of predict_disruption
    dataset,          \* df handed to filter_data
    selection,        \* product and location handed to filter_data
    pc,               \* position in the page's run block, idle outside one
    demand_rerun,     \* result of a second forecast_demand on the same input
    risk_rerun        \* result of a second predict_disruption on the same input

registryVars == <<registry, available, described>>

forecastVars == <<history, horizon_days, future_df, forecast_model, risk_model,
                  demand_call, risk_call>>

inputVars == <<dataset, selection>>

rerunVars == <<demand_rerun, risk_rerun>>

vars == <<page, dates, demand, risk, threshold, window, hybrid, scenario_type,
          severity, modified_demand, modified_risk, applied, recommendation,
          registryVars, forecastVars, inputVars, rerunVars, pc>>

----------------------------------------------------------------------------
(* Bounds *)

MaxLen == 4          \* longest enumerated series

(* Input alphabets *)

RiskLevels == {10, 30, 50}          \* below / at / above the thresholds
Thresholds == {30, 50}              \* slider 10..50 step 5
DemandLevels == {5000, 10000}       \* 50 and 100 units
RawRiskLevels == {-10, 20, 90, 120} \* apply_scenario accepts any float array

None == 0 - 1        \* Python None in a date position

----------------------------------------------------------------------------
(* Sequence helpers *)

RECURSIVE SeqsUpTo(_, _)
SeqsUpTo(S, n) ==
    IF n = 0 THEN {<<>>}
    ELSE LET shorter == SeqsUpTo(S, n - 1)
         IN  shorter \cup {Append(s, x) : s \in {t \in shorter : Len(t) = n - 1}, x \in S}

SeqsOfLen(S, n) == {s \in SeqsUpTo(S, n) : Len(s) = n}

RECURSIVE Sum(_)
Sum(s) == IF s = <<>> THEN 0 ELSE s[1] + Sum(Tail(s))

Last(s) == s[Len(s)]

\* n consecutive calendar days, numbered from day 1
DateRange(n) == [i \in 1..n |-> i]

----------------------------------------------------------------------------
(* backend/disruption.py: calculate_safe_purchase_window *)

\* np.where(risk_probabilities < threshold)[0]: the 0-based indices, ascending
RECURSIVE WhereBelowFrom(_, _, _)
WhereBelowFrom(r, t, i) ==
    IF i >= Len(r) THEN <<>>
    ELSE IF r[i + 1] < t THEN <<i>> \o WhereBelowFrom(r, t, i + 1)
    ELSE WhereBelowFrom(r, t, i + 1)

\* Faulty variant: risk equal to the threshold counts as safe
WhereBelowOrEqual(r, t) == WhereBelowFrom(r, t + 1, 0)

WhereBelow(r, t) == WhereBelowFrom(r, t, 0)

\* np.split(idx, np.where(np.diff(idx) != 1)[0] + 1): cut wherever two
\* neighbouring indices are not consecutive; an empty idx gives one empty group
RECURSIVE SplitConsecutive(_)
SplitConsecutive(idx) ==
    IF Len(idx) <= 1 THEN <<idx>>
    ELSE LET rest == SplitConsecutive(Tail(idx))
         IN  IF idx[2] - idx[1] # 1
             THEN <<(<<idx[1]>>)>> \o rest
             ELSE <<(<<idx[1]>> \o rest[1])>> \o Tail(rest)

\* max(groups, key=len): Python's max keeps the first of several maxima
RECURSIVE MaxByLenFrom(_, _, _)
MaxByLenFrom(groups, best, k) ==
    IF k > Len(groups) THEN best
    ELSE IF Len(groups[k]) > Len(best)
         THEN MaxByLenFrom(groups, groups[k], k + 1)
         ELSE MaxByLenFrom(groups, best, k + 1)

\* Faulty variant: keeps the last of several maxima
RECURSIVE MaxByLenLastFrom(_, _, _)
MaxByLenLastFrom(groups, best, k) ==
    IF k > Len(groups) THEN best
    ELSE IF Len(groups[k]) >= Len(best)
         THEN MaxByLenLastFrom(groups, groups[k], k + 1)
         ELSE MaxByLenLastFrom(groups, best, k + 1)

LastLongestGroup(groups) == MaxByLenLastFrom(groups, groups[1], 2)

\* Faulty variant: the first safe run, whatever its length
FirstGroup(groups) == groups[1]

LongestGroup(groups) == MaxByLenFrom(groups, groups[1], 2)

\* The value a call produces: a returned tuple, or the exception it raises.
\* start_idx and end_idx are the code's locals, kept to state claims on them.
NotCalled == [outcome |-> "not_called", start_date |-> None, end_date |-> None,
              num_safe_days |-> 0, start_idx |-> None, end_idx |-> None]

NoWindow == [outcome |-> "returned", start_date |-> None, end_date |-> None,
             num_safe_days |-> 0, start_idx |-> None, end_idx |-> None]

IndexErrorRaised == [outcome |-> "IndexError", start_date |-> None, end_date |-> None,
                     num_safe_days |-> 0, start_idx |-> None, end_idx |-> None]

\* dates.iloc[i] / dates[i] is defined for 0 <= i < len(dates)
InRange(ds, i) == 0 <= i /\ i < Len(ds)

\* Faulty variant: the empty dates sequence is not tested
EmptyRiskOnly(ds, risk_probabilities) == Len(risk_probabilities) = 0

\* len(dates) == 0 or len(risk_probabilities) == 0
EmptyInput(ds, risk_probabilities) == Len(ds) = 0 \/ Len(risk_probabilities) = 0

calculate_safe_purchase_window(ds, risk_probabilities, thr) ==
    IF EmptyInput(ds, risk_probabilities) THEN NoWindow
    ELSE LET safe_indices == WhereBelow(risk_probabilities, thr)
         IN  IF Len(safe_indices) = 0 THEN NoWindow
             ELSE LET longest_group == LongestGroup(SplitConsecutive(safe_indices))
                  IN  IF Len(longest_group) = 0 THEN NoWindow
                      ELSE LET start_idx == longest_group[1]
                               end_idx == Last(longest_group)
                           IN  IF ~InRange(ds, start_idx) \/ ~InRange(ds, end_idx)
                               THEN IndexErrorRaised
                               ELSE [outcome |-> "returned",
                                     start_date |-> ds[start_idx + 1],
                                     end_date |-> ds[end_idx + 1],
                                     num_safe_days |-> Len(longest_group),
                                     start_idx |-> start_idx,
                                     end_idx |-> end_idx]

----------------------------------------------------------------------------
(* backend/scenario_simulation.py: ScenarioSimulator *)

SCENARIOS ==
    [festival_spike |->
        [name |-> "Festival Demand Spike",
         description |-> "Increased demand during festival season",
         demand_multiplier |-> [low |-> 120, medium |-> 150, high |-> 200],
         risk_adjustment   |-> [low |-> 5, medium |-> 10, high |-> 15]],
     bad_weather |->
        [name |-> "Bad Weather Conditions",
         description |-> "Heavy rainfall or extreme temperatures",
         demand_multiplier |-> [low |-> 95, medium |-> 85, high |-> 70],
         risk_adjustment   |-> [low |-> 10, medium |-> 20, high |-> 35]],
     logistics_delay |->
        [name |-> "Logistics Delay",
         description |-> "Supply chain disruption or delivery delays",
         demand_multiplier |-> [low |-> 100, medium |-> 100, high |-> 100],
         risk_adjustment   |-> [low |-> 15, medium |-> 30, high |-> 50]],
     promotion |->
        [name |-> "Promotional Campaign",
         description |-> "Marketing promotion or discount offer",
         demand_multiplier |-> [low |-> 130, medium |-> 160, high |-> 220],
         risk_adjustment   |-> [low |-> 0, medium |-> 5, high |-> 10]],
     competitor_action |->
        [name |-> "Competitor Action",
         description |-> "Competitor launches similar product or promotion",
         demand_multiplier |-> [low |-> 90, medium |-> 75, high |-> 60],
         risk_adjustment   |-> [low |-> 5, medium |-> 10, high |-> 15]]]

\* dict.get(key, default)
Get(d, key, default) == IF key \in DOMAIN d THEN d[key] ELSE default

\* np.clip(x, lo, hi) = minimum(maximum(x, lo), hi)
\* Faulty variant: no upper bound
ClipLowerOnly(x, lo, hi) == IF x < lo THEN lo ELSE x

Clip(x, lo, hi) ==
    LET raised == IF x < lo THEN lo ELSE x
    IN  IF raised > hi THEN hi ELSE raised

\* demand_forecast * demand_mult, element by element
\* Faulty variant: the multiplier is added
ScaleAdditive(s, mult) == [i \in 1..Len(s) |-> s[i] + mult]

Scale(s, mult) == [i \in 1..Len(s) |-> (s[i] * mult) \div 100]

\* Faulty variant: the adjustment is subtracted
ShiftDownClip(s, adj) == [i \in 1..Len(s) |-> Clip(s[i] - adj, 0, 100)]

\* np.clip(risk_forecast + risk_adj, 0, 1), element by element
ShiftClip(s, adj) == [i \in 1..Len(s) |-> Clip(s[i] + adj, 0, 100)]

\* The code returns a bare pair: it has no diagnostic channel, prints nothing
\* and raises nothing, so the diagnostic a caller can observe is always "none".
apply_scenario(demand_forecast, risk_forecast, st, sv) ==
    IF st \notin DOMAIN SCENARIOS
    THEN [demand |-> demand_forecast, risk |-> risk_forecast,
          outcome |-> "returned", diagnostic |-> "none"]
    ELSE LET scenario == SCENARIOS[st]
             demand_mult == Get(scenario.demand_multiplier, sv, 100)
             risk_adj == Get(scenario.risk_adjustment, sv, 0)
         IN  [demand |-> Scale(demand_forecast, demand_mult),
              risk |-> ShiftClip(risk_forecast, risk_adj),
              outcome |-> "returned", diagnostic |-> "none"]

\* SCENARIOS is a class attribute, a dict any method could rebind or update.
\* None of the four classmethods assigns to it or to one of its entries.
\* Faulty variant: an unknown id is registered with neutral values
SCENARIOS_with_fallback_entry(reg) ==
    [k \in DOMAIN reg \cup {"nonexistent"} |->
        IF k \in DOMAIN reg THEN reg[k]
        ELSE [name |-> "Unknown scenario", description |-> "Unknown scenario",
              demand_multiplier |-> [low |-> 100, medium |-> 100, high |-> 100],
              risk_adjustment |-> [low |-> 0, medium |-> 0, high |-> 0]]]

SCENARIOS_after_call(reg) == reg

NotListed == [outcome |-> "not_called", value |-> <<>>]

\* {k: v['name'] for k, v in cls.SCENARIOS.items()}
get_available_scenarios(reg) ==
    [outcome |-> "returned", value |-> [k \in DOMAIN reg |-> reg[k].name]]

NotDescribed == [outcome |-> "not_called", known |-> FALSE, name |-> "",
                 severity |-> "", demand_change |-> 0, risk_change |-> 0,
                 demand_line |-> "", risk_line |-> ""]

\* The text is kept by its parts: demand_change and risk_change in percent
\* and percentage points, and the two interpretation lines chosen.
get_scenario_description(reg, st, sv) ==
    IF st \notin DOMAIN reg
    THEN [NotDescribed EXCEPT !.outcome = "returned"]
    ELSE LET scenario == reg[st]
             demand_mult == Get(scenario.demand_multiplier, sv, 100)
             risk_adj == Get(scenario.risk_adjustment, sv, 0)
             demand_change == demand_mult - 100
             risk_change == risk_adj
         IN  [outcome |-> "returned", known |-> TRUE,
              name |-> scenario.name, severity |-> sv,
              demand_change |-> demand_change, risk_change |-> risk_change,
              demand_line |->
                  IF demand_change > 20 THEN "significant_increase"
                  ELSE IF demand_change > 0 THEN "moderate_increase"
                  ELSE IF demand_change < 0 - 20 THEN "significant_decrease"
                  ELSE IF demand_change < 0 THEN "moderate_decrease"
                  ELSE "stable",
              risk_line |->
                  IF risk_change > 30 THEN "very_high"
                  ELSE IF risk_change > 15 THEN "elevated"
                  ELSE IF risk_change > 0 THEN "slightly_increased"
                  ELSE "unchanged"]

\* A mean is kept as numerator and denominator
Mean(s) == [num |-> Sum(s), den |-> Len(s)]

NoMean == [num |-> 0, den |-> 1]

RatEq(a, b) == a.num * b.den = b.num * a.den

RECURSIVE MaxOf(_)
MaxOf(s) == IF Len(s) = 1 THEN s[1]
            ELSE LET m == MaxOf(Tail(s)) IN IF s[1] > m THEN s[1] ELSE m

NoRecommendation == [outcome |-> "not_called", kind |-> "none",
                     from |-> None, to |-> None, duration |-> 0,
                     avg_demand |-> NoMean,
                     safety_stock_line |-> FALSE, contingency_line |-> FALSE]

\* np.max of a zero-size array raises ValueError (np.mean only warns)
get_recommendation(mod_demand, mod_risk, ds, risk_threshold) ==
    IF Len(mod_risk) = 0
    THEN [NoRecommendation EXCEPT !.outcome = "ValueError"]
    ELSE LET avg_demand == Mean(mod_demand)
             avg_risk == Mean(mod_risk)
             max_risk == MaxOf(mod_risk)
             safe_indices == WhereBelow(mod_risk, risk_threshold)
         IN  IF Len(safe_indices) = 0
             THEN [NoRecommendation EXCEPT !.outcome = "returned",
                                           !.kind = "high_alert"]
             ELSE LET start_idx == safe_indices[1]
                      end_idx == Last(safe_indices)
                  IN  IF ~InRange(ds, start_idx) \/ ~InRange(ds, end_idx)
                      THEN [NoRecommendation EXCEPT !.outcome = "IndexError"]
                      ELSE [outcome |-> "returned", kind |-> "window",
                            from |-> ds[start_idx + 1],
                            to |-> ds[end_idx + 1],
                            duration |-> Len(safe_indices),
                            avg_demand |-> avg_demand,
                            safety_stock_line |-> avg_risk.num > 50 * avg_risk.den,
                            contingency_line |-> max_risk > 70]

----------------------------------------------------------------------------
(* pages/2_Forecast_and_Risk.py: hybrid purchase recommendation *)

\* future_df[future_df['risk_probability'] < risk_threshold]['predicted_demand']
Select(s, idx) == [k \in 1..Len(idx) |-> s[idx[k] + 1]]

NoHybrid == [kind |-> "not_shown", start |-> None, end |-> None, duration |-> 0,
             safe_period_demand |-> 0, avg_safe_demand |-> NoMean,
             suggested_quantity |-> NoMean]

hybrid_recommendation(w, predicted_demand, risk_probability, risk_threshold) ==
    IF w.num_safe_days > 0
    THEN LET safe_period_demand ==
                 Sum(Select(predicted_demand, WhereBelow(risk_probability, risk_threshold)))
         IN  [kind |-> "window", start |-> w.start_date, end |-> w.end_date,
              duration |-> w.num_safe_days,
              safe_period_demand |-> safe_period_demand,
              avg_safe_demand |-> [num |-> safe_period_demand, den |-> w.num_safe_days],
              suggested_quantity |-> [num |-> safe_period_demand * 11, den |-> 10]]
    ELSE [NoHybrid EXCEPT !.kind = "no_window"]

----------------------------------------------------------------------------
(* backend/forecasting.py and backend/disruption.py: tables and predictions *)

\* A table is its set of column names and its rows; historical_df may be None
NoTable == [none |-> TRUE, columns |-> {}, rows |-> <<>>]

NotProjected == [outcome |-> "not_called", columns |-> {}, rows |-> <<>>]

\* What a call hands back is values; diagnostic stands for anything else the
\* return value carries, message for what is written to the page or to
\* standard output on the way, features and rows_passed for the matrix X,
\* raised and raw for what the predictor did with it, indicators for the
\* derived columns of X.
NotForecast == [outcome |-> "not_called", values |-> <<>>, path |-> "none",
                message |-> "", diagnostic |-> "none", features |-> {},
                dummies |-> {}, rows_passed |-> 0, raised |-> FALSE, raw |-> <<>>]

NotPredicted == [outcome |-> "not_called", values |-> <<>>, path |-> "none",
                 message |-> "", diagnostic |-> "none", features |-> <<>>,
                 rows_passed |-> 0, raised |-> FALSE, raw |-> <<>>, indicators |-> <<>>]

\* Temperature is in degrees, rainfall in millimetres, units_sold in units,
\* congestion_index in hundredths, a date is a day number. A row is a function
\* from the table's column names to cell values; the cells of a projected row
\* that come from a mean are rationals.
Column(rows, c) == [i \in 1..Len(rows) |-> rows[i][c]]

\* Faulty variant: the whole table is taken
tail_all(rows, n) == rows

\* DataFrame.tail(n)
tail(rows, n) == IF Len(rows) <= n THEN rows ELSE SubSeq(rows, Len(rows) - n + 1, Len(rows))

RecentRows == 60

SeedRows == 30

Whole(x) == [num |-> x, den |-> 1]

\* pd.DataFrame()
EmptyDataFrame == [outcome |-> "returned", columns |-> {}, rows |-> <<>>]

\* Faulty variant: the range starts on the last historical day itself
SameDay(d) == d

\* last_date + pd.Timedelta(days=1)
NextDay(d) == d + 1

\* Faulty variant: every other day
date_range_two_daily(start, periods) == [i \in 1..periods |-> start + 2 * (i - 1)]

\* pd.date_range(start=..., periods=..., freq='D')
date_range(start, periods) == [i \in 1..periods |-> start + (i - 1)]

FutureColumns == {"date", "temperature", "rainfall", "holiday_flag", "promotion_flag",
                  "congestion_index", "units_sold"}

\* product / location chosen in the sidebar; "" stands for None
Chosen(value) == value # "" /\ value # "All"

\* filtered_df = df.copy(), then boolean-mask selections of the copy
df_after_filter_data(df) == df

filter_data(df, product, location) ==
    IF df.none THEN [outcome |-> "returned", table |-> NoTable]
    ELSE IF \/ Chosen(product) /\ "product" \notin df.columns
            \/ Chosen(location) /\ "location" \notin df.columns
    THEN [outcome |-> "KeyError", table |-> NoTable]
    ELSE LET by_product ==
                 IF Chosen(product)
                 THEN SelectSeq(df.rows, LAMBDA r : r["product"] = product)
                 ELSE df.rows
             by_location ==
                 IF Chosen(location)
                 THEN SelectSeq(by_product, LAMBDA r : r["location"] = location)
                 ELSE by_product
         IN  [outcome |-> "returned", table |-> [df EXCEPT !.rows = by_location]]

\* The function reads historical_df through tail, mean, max and iloc and
\* assigns only to future_df, a table it made itself
historical_df_after_projection(historical_df) == historical_df

\* Faulty variant: the run block goes on with an empty table
NeverStop(table) == FALSE

\* future_df is None or len(future_df) == 0, then st.stop()
ShouldStop(table) == Len(table.rows) = 0

\* pd.date_range given a negative periods: depending on the pandas release it
\* raises ValueError or returns an empty index
RangeRejected == [outcome |-> "ValueError", columns |-> {}, rows |-> <<>>]

\* now is what pd.Timestamp.now() reads from the clock, validates whether the
\* installed pd.date_range rejects a negative periods
create_future_dataframe(historical_df, horizon, now, validates) ==
    IF historical_df.none \/ Len(historical_df.rows) = 0
    THEN EmptyDataFrame
    ELSE IF horizon < 0 /\ validates
    THEN RangeRejected
    ELSE LET cols == historical_df.columns
             rows == historical_df.rows
             last_date == IF "date" \in cols THEN MaxOf(Column(rows, "date")) ELSE now
             future_dates == date_range(NextDay(last_date), horizon)
             recent_data == tail(rows, RecentRows)
             MeanOr(c, default) ==
                 IF c \in cols THEN Mean(Column(recent_data, c)) ELSE default
             avg_recent == IF "units_sold" \in cols
                           THEN Mean(Column(tail(rows, SeedRows), "units_sold"))
                           ELSE Whole(0)
             out == FutureColumns \cup (cols \cap {"product", "location"})
             Cell(i, c) ==
                 CASE c = "date" -> future_dates[i]
                   [] c = "temperature" -> MeanOr("temperature", Whole(20))
                   [] c = "rainfall" -> MeanOr("rainfall", Whole(0))
                   [] c = "holiday_flag" -> 0
                   [] c = "promotion_flag" -> 0
                   [] c = "congestion_index" -> MeanOr("congestion_index", Whole(50))
                   [] c = "units_sold" -> avg_recent
                   [] OTHER -> Last(recent_data)[c]
         IN  [outcome |-> "returned", columns |-> out,
              rows |-> [i \in 1..horizon |-> [c \in out |-> Cell(i, c)]]]

\* Faulty variant: a single zero whatever the number of rows
np_zeros_scalar(n) == <<0>>

\* np.zeros(n)
np_zeros(n) == [i \in 1..n |-> 0]

\* Faulty variant: the fallback fills with 0, so every day looks safe
np_full_of_zero(n, v) == [i \in 1..n |-> 0]

\* np.full(n, v)
np_full(n, v) == [i \in 1..n |-> v]

\* Faulty variant: the raw predictions are returned
KeepRaw(s, lo) == s

\* np.maximum(s, lo)
Maximum(s, lo) == [i \in 1..Len(s) |-> IF s[i] > lo THEN s[i] ELSE lo]

\* Faulty variant: the raw outputs are returned
ClipNone(s, lo, hi) == s

\* np.clip(s, lo, hi) on an array
ClipAll(s, lo, hi) == [i \in 1..Len(s) |-> Clip(s[i], lo, hi)]

TimeFeatures == {"day_of_week", "week", "month", "year"}

LagFeatures == {"lag_7", "lag_14", "lag_28"}

RollFeatures == {"roll_mean_7", "roll_std_7", "roll_mean_28", "roll_std_28"}

NumericFeatures == {"temperature", "rainfall", "congestion_index"}

CategoricalFeatures == {"product", "location", "holiday_flag", "promotion_flag"}

\* Faulty variant: the seed column stays among the features
exclude_date_only == {"date"}

exclude_cols == {"date", "units_sold"}

\* The numeric columns of feature_df other than date and units_sold. The
\* indicator columns pd.get_dummies makes are kept by the column they encode.
forecast_features(input_df) ==
    [numeric |-> ((IF "date" \in input_df.columns THEN TimeFeatures ELSE {})
                     \cup LagFeatures \cup RollFeatures \cup NumericFeatures
                     \cup (input_df.columns \cap {"units_sold"})) \ exclude_cols,
     dummies |-> IF Len(input_df.rows) = 0 THEN {} ELSE CategoricalFeatures]

\* Faulty variant: feature_df = input_df, so the lag, rolling and default
\* columns are assigned to the caller's table
feature_df_of_forecast_demand(input_df) ==
    LET added == input_df.columns \cup forecast_features(input_df).numeric
                     \cup CategoricalFeatures
    IN  [input_df EXCEPT
            !.columns = added,
            !.rows = [i \in 1..Len(input_df.rows) |->
                         [c \in added |-> IF c \in input_df.columns
                                           THEN input_df.rows[i][c] ELSE Whole(0)]]]

\* feature_df = input_df.copy(): every assignment goes to the copy
input_df_after_forecast_demand(input_df) == input_df

\* model is what load_forecast_model returned; predictor is what
\* model.predict does on X: it raises, or returns one raw value per row of X.
forecast_demand(input_df, model, predictor) ==
    LET n == Len(input_df.rows)
        X == forecast_features(input_df)
    IN  IF model = "absent"
        THEN [outcome |-> "returned", values |-> np_zeros(n), path |-> "model_absent",
              message |-> "XGBoost model not found", diagnostic |-> "none",
              features |-> {}, dummies |-> {}, rows_passed |-> 0,
              raised |-> FALSE, raw |-> <<>>]
        ELSE IF X.numeric \cup X.dummies = {}
        THEN [outcome |-> "returned", values |-> np_zeros(n), path |-> "no_features",
              message |-> "", diagnostic |-> "none",
              features |-> {}, dummies |-> {}, rows_passed |-> 0,
              raised |-> FALSE, raw |-> <<>>]
        ELSE IF predictor.raises
        THEN [outcome |-> "returned", values |-> np_zeros(n), path |-> "exception",
              message |-> "Error during forecasting", diagnostic |-> "none",
              features |-> X.numeric, dummies |-> X.dummies, rows_passed |-> n,
              raised |-> TRUE, raw |-> <<>>]
        ELSE [outcome |-> "returned", values |-> Maximum(predictor.output, 0),
              path |-> "predicted", message |-> "", diagnostic |-> "none",
              features |-> X.numeric, dummies |-> X.dummies, rows_passed |-> n,
              raised |-> FALSE, raw |-> predictor.output]

expected_features == <<"temperature", "rainfall", "congestion_index", "extreme_temp",
                       "heavy_rain", "high_congestion", "day_of_week", "month",
                       "is_weekend">>

\* Columns of feature_df after the derived indicators are added
risk_feature_columns(cols) ==
    cols \cup (IF "temperature" \in cols THEN {"extreme_temp"} ELSE {})
         \cup (IF "rainfall" \in cols THEN {"heavy_rain"} ELSE {})
         \cup (IF "congestion_index" \in cols THEN {"high_congestion"} ELSE {})
         \cup (IF "date" \in cols THEN {"day_of_week", "month", "is_weekend"} ELSE {})

IsAvailable(cols, col) == col \in risk_feature_columns(cols)

\* Order of two rationals with positive denominators
Less(a, b) == a.num * b.den < b.num * a.den

\* Faulty variant: the boundary value counts as above it
GreaterOrEqual(a, b) == a.num * b.den >= b.num * a.den

Greater(a, b) == a.num * b.den > b.num * a.den

\* .astype(int) of a boolean
AsInt(b) == IF b THEN 1 ELSE 0

\* Series.dt.dayofweek, Monday 0 to Sunday 6; day number 0 is a Monday
dayofweek(d) == d % 7

IndicatorSource(c) ==
    CASE c = "extreme_temp" -> "temperature"
      [] c = "heavy_rain" -> "rainfall"
      [] c = "high_congestion" -> "congestion_index"
      [] c = "day_of_week" -> "date"
      [] c = "is_weekend" -> "date"

IndicatorColumns == {"extreme_temp", "heavy_rain", "high_congestion", "day_of_week",
                     "is_weekend"}

\* The derived columns of feature_df, row by row, for the source columns the
\* input has
risk_indicators(input_df) ==
    LET made == {c \in IndicatorColumns : IndicatorSource(c) \in input_df.columns}
        Cell(r, c) ==
            CASE c = "extreme_temp" ->
                     AsInt(Less(r["temperature"], Whole(0))
                               \/ Greater(r["temperature"], Whole(35)))
              [] c = "heavy_rain" -> AsInt(Greater(r["rainfall"], Whole(50)))
              [] c = "high_congestion" -> AsInt(Greater(r["congestion_index"], Whole(70)))
              [] c = "day_of_week" -> dayofweek(r["date"])
              [] c = "is_weekend" -> AsInt(dayofweek(r["date"]) \in {5, 6})
    IN  [i \in 1..Len(input_df.rows) |-> [c \in made |-> Cell(input_df.rows[i], c)]]

\* feature_df = input_df.copy(): every assignment goes to the copy
input_df_after_predict_disruption(input_df) == input_df

\* model is what load_risk_model returned: absent, a classifier (it has
\* predict_proba) or a regressor (predict only). uniform is what
\* np.random.uniform(0.1, 0.4, n) draws. predictor is what the model does on X:
\* it raises, or returns one value per row, a probability from predict_proba.
predict_disruption(input_df, model, uniform, predictor) ==
    LET n == Len(input_df.rows)
        available_features ==
            SelectSeq(expected_features, LAMBDA col : IsAvailable(input_df.columns, col))
    IN  IF model = "absent"
        THEN [outcome |-> "returned", values |-> uniform, path |-> "model_absent",
              message |-> "Risk model not found", diagnostic |-> "none",
              features |-> <<>>, rows_passed |-> 0, raised |-> FALSE, raw |-> <<>>,
              indicators |-> <<>>]
        ELSE IF available_features = <<>>
        THEN [outcome |-> "returned", values |-> np_full(n, 30), path |-> "no_features",
              message |-> "", diagnostic |-> "none",
              features |-> <<>>, rows_passed |-> 0, raised |-> FALSE, raw |-> <<>>,
              indicators |-> <<>>]
        ELSE IF predictor.raises
        THEN [outcome |-> "returned", values |-> np_full(n, 30), path |-> "exception",
              message |-> "Error during disruption prediction", diagnostic |-> "none",
              features |-> available_features, rows_passed |-> n,
              raised |-> TRUE, raw |-> <<>>, indicators |-> risk_indicators(input_df)]
        ELSE [outcome |-> "returned",
              values |-> IF model = "classifier" THEN predictor.output
                         ELSE ClipAll(predictor.output, 0, 100),
              path |-> "predicted", message |-> "", diagnostic |-> "none",
              features |-> available_features, rows_passed |-> n,
              raised |-> FALSE, raw |-> predictor.output,
              indicators |-> risk_indicators(input_df)]

----------------------------------------------------------------------------
(* State machines.  Every analysis is one request of one page: its inputs   *)
(* are fixed in the initial state and each call is one step that stores     *)
(* what it returns.  Page 2 (Forecast and Risk) searches the window and      *)
(* shows the hybrid recommendation; page 5 (Scenario Simulation) applies a   *)
(* scenario and asks for the recommendation.                                 *)

ScenarioIds == DOMAIN SCENARIOS
Severities == {"low", "medium", "high"}
ScenarioInputs == ScenarioIds \cup {"nonexistent"}
SeverityInputs == Severities \cup {"extreme"}

NotApplied == [outcome |-> "not_called", diagnostic |-> "none"]

\* The series of the documented example, threshold 0.3
ExampleRisk == <<10, 40, 20, 20, 50, 10, 10, 10>>
ExampleDemand == [i \in 1..Len(ExampleRisk) |-> 10000]

NoScenarioCall ==
    /\ scenario_type = "nonexistent"
    /\ severity = "medium"
    /\ modified_demand = <<>>
    /\ modified_risk = <<>>
    /\ applied = NotApplied

\* The registry as the class body builds it, before any classmethod is called
RegistryLoaded ==
    /\ registry = SCENARIOS
    /\ available = NotListed
    /\ described = NotDescribed

\* A call made on its own, outside the run block of a page
NoPipeline ==
    /\ dataset = NoTable
    /\ selection = [product |-> "All", location |-> "All"]
    /\ pc = "idle"
    /\ demand_rerun = NotForecast
    /\ risk_rerun = NotPredicted

\* The statement the page is at: a call made on its own, or the next one of
\* the run block
At(statement) == pc \in {"idle", statement}

Goto(statement) == pc' = IF pc = "idle" THEN "idle" ELSE statement

\* A request that starts from series already forecast
NoForecastCall ==
    /\ history = NoTable
    /\ horizon_days = 0
    /\ future_df = NotProjected
    /\ forecast_model = "absent"
    /\ risk_model = "absent"
    /\ demand_call = NotForecast
    /\ risk_call = NotPredicted

(* Window search and the page-2 recommendation built on it *)

InitWindow ==
    /\ \/ /\ dates \in {DateRange(n) : n \in 0..MaxLen}
          /\ \E n \in 0..MaxLen :
                /\ risk \in SeqsOfLen(RiskLevels, n)
                /\ demand \in SeqsOfLen(DemandLevels, n)
          /\ threshold \in Thresholds
       \/ /\ dates = DateRange(Len(ExampleRisk))
          /\ risk = ExampleRisk
          /\ demand = ExampleDemand
          /\ threshold = 30
    /\ page = "forecast_and_risk"
    /\ window = NotCalled
    /\ hybrid = NoHybrid
    /\ recommendation = NoRecommendation
    /\ NoScenarioCall
    /\ RegistryLoaded
    /\ NoPipeline
    /\ NoForecastCall

CalculateSafePurchaseWindow ==
    /\ page = "forecast_and_risk"
    /\ window.outcome = "not_called"
    /\ At("calculate_safe_purchase_window")
    /\ window' = calculate_safe_purchase_window(dates, risk, threshold)
    /\ Goto(IF window'.outcome = "returned" THEN "hybrid_recommendation" ELSE "failed")
    /\ UNCHANGED <<inputVars, rerunVars, page, dates, demand, risk, threshold, hybrid, scenario_type, severity,
                   modified_demand, modified_risk, applied, recommendation,
                   registryVars, forecastVars>>

\* Page 2 reaches the recommendation after the window search returned, with
\* date, predicted_demand and risk_probability columns of one table.
HybridRecommendation ==
    /\ page = "forecast_and_risk"
    /\ window.outcome = "returned"
    /\ hybrid.kind = "not_shown"
    /\ At("hybrid_recommendation")
    /\ Len(dates) = Len(risk)
    /\ hybrid' = hybrid_recommendation(window, demand, risk, threshold)
    /\ Goto("done")
    /\ UNCHANGED <<inputVars, rerunVars, page, dates, demand, risk, threshold, window, scenario_type, severity,
                   modified_demand, modified_risk, applied, recommendation,
                   registryVars, forecastVars>>

NextWindow == CalculateSafePurchaseWindow \/ HybridRecommendation

SpecWindow == InitWindow /\ [][NextWindow]_vars

(* Scenario application *)

InitScenario ==
    /\ \E n \in 0..MaxLen :
          /\ demand \in SeqsOfLen(DemandLevels, n)
          /\ risk \in SeqsOfLen(RawRiskLevels, n)
          /\ dates = DateRange(n)
    /\ threshold \in Thresholds
    /\ page = "scenario_simulation"
    /\ window = NotCalled
    /\ hybrid = NoHybrid
    /\ recommendation = NoRecommendation
    /\ NoScenarioCall
    /\ RegistryLoaded
    /\ NoPipeline
    /\ NoForecastCall

ApplyScenario ==
    /\ page = "scenario_simulation"
    /\ applied.outcome = "not_called"
    /\ At("apply_scenario")
    /\ \E st \in ScenarioInputs, sv \in SeverityInputs :
          LET r == apply_scenario(demand, risk, st, sv)
          IN  /\ scenario_type' = st
              /\ severity' = sv
              /\ modified_demand' = r.demand
              /\ modified_risk' = r.risk
              /\ applied' = [outcome |-> r.outcome, diagnostic |-> r.diagnostic]
    /\ registry' = SCENARIOS_after_call(registry)
    /\ Goto("get_recommendation")
    /\ UNCHANGED <<inputVars, rerunVars, page, dates, demand, risk, threshold, window, hybrid, recommendation,
                   available, described, forecastVars>>

NextScenario == ApplyScenario

SpecScenario == InitScenario /\ [][NextScenario]_vars

(* Recommendation on an adjusted pair of series.  The request starts after  *)
(* apply_scenario has returned; the pair is the one an unregistered        *)
(* scenario id leaves, which is any pair of series.                        *)

InitRecommend ==
    /\ \/ /\ dates \in {DateRange(n) : n \in 0..MaxLen}
          /\ \E n \in 0..MaxLen :
                /\ modified_risk \in SeqsOfLen(RiskLevels, n)
                /\ modified_demand \in SeqsOfLen(DemandLevels, n)
          /\ threshold \in Thresholds
       \/ /\ dates = DateRange(Len(ExampleRisk))
          /\ modified_risk = ExampleRisk
          /\ modified_demand = ExampleDemand
          /\ threshold = 30
    /\ demand = modified_demand
    /\ risk = modified_risk
    /\ scenario_type = "nonexistent"
    /\ severity = "medium"
    /\ applied = [outcome |-> "returned", diagnostic |-> "none"]
    /\ page = "scenario_simulation"
    /\ window = NotCalled
    /\ hybrid = NoHybrid
    /\ recommendation = NoRecommendation
    /\ RegistryLoaded
    /\ NoPipeline
    /\ NoForecastCall

GetRecommendation ==
    /\ page = "scenario_simulation"
    /\ applied.outcome = "returned"
    /\ recommendation.outcome = "not_called"
    /\ At("get_recommendation")
    /\ recommendation' = get_recommendation(modified_demand, modified_risk, dates, threshold)
    /\ registry' = SCENARIOS_after_call(registry)
    /\ Goto("done")
    /\ UNCHANGED <<inputVars, rerunVars, page, dates, demand, risk, threshold, window, hybrid, scenario_type,
                   severity, modified_demand, modified_risk, applied,
                   available, described, forecastVars>>

NextRecommend == GetRecommendation

SpecRecommend == InitRecommend /\ [][NextRecommend]_vars

(* The registry lookups of page 5, around the scenario calls *)

InitRegistry ==
    /\ dates = DateRange(2)
    /\ demand = <<10000, 5000>>
    /\ risk = <<20, 90>>
    /\ threshold \in Thresholds
    /\ page = "scenario_simulation"
    /\ window = NotCalled
    /\ hybrid = NoHybrid
    /\ recommendation = NoRecommendation
    /\ NoScenarioCall
    /\ RegistryLoaded
    /\ NoPipeline
    /\ NoForecastCall

GetAvailableScenarios ==
    /\ page = "scenario_simulation"
    /\ available.outcome = "not_called"
    /\ At("idle")
    /\ available' = get_available_scenarios(registry)
    /\ registry' = SCENARIOS_after_call(registry)
    /\ UNCHANGED pc
    /\ UNCHANGED <<inputVars, rerunVars, page, dates, demand, risk, threshold, window, hybrid, scenario_type,
                   severity, modified_demand, modified_risk, applied, recommendation,
                   described, forecastVars>>

GetScenarioDescription ==
    /\ page = "scenario_simulation"
    /\ described.outcome = "not_called"
    /\ At("idle")
    /\ \E st \in ScenarioInputs, sv \in SeverityInputs :
          described' = get_scenario_description(registry, st, sv)
    /\ registry' = SCENARIOS_after_call(registry)
    /\ UNCHANGED pc
    /\ UNCHANGED <<inputVars, rerunVars, page, dates, demand, risk, threshold, window, hybrid, scenario_type,
                   severity, modified_demand, modified_risk, applied, recommendation,
                   available, forecastVars>>

NextRegistry == GetAvailableScenarios \/ GetScenarioDescription \/ ApplyScenario
                    \/ GetRecommendation

SpecRegistry == InitRegistry /\ [][NextRegistry]_vars

(* create_future_dataframe on a history of page 2 *)

MaxHist == 2

MaxHorizon == 3

Clock == {6, 8}

RowProfiles == [date : {3, 5}, temperature : {10, 31}, rainfall : {0},
                congestion_index : {80}, product : {"P1", "P2"}, location : {"L1"},
                units_sold : {4, 9}]

HistoryShapes == {{"date", "temperature", "rainfall", "congestion_index", "product",
                   "location", "units_sold"},
                  {"date", "units_sold"},
                  {"temperature", "product"}}

Restrict(r, cols) == [c \in cols |-> r[c]]

HistoriesOf(cols) ==
    {[none |-> FALSE, columns |-> cols, rows |-> rows] :
        rows \in SeqsUpTo({Restrict(r, cols) : r \in RowProfiles}, MaxHist)}

\* A history longer than the trailing windows: its first row differs from
\* all the later ones
LongHistory(n) ==
    [none |-> FALSE,
     columns |-> {"date", "temperature", "rainfall", "congestion_index", "product",
                  "location", "units_sold"},
     rows |-> [i \in 1..n |->
                  IF i = 1
                  THEN [date |-> 1, temperature |-> 31, rainfall |-> 60,
                        congestion_index |-> 20, product |-> "P1", location |-> "L1",
                        units_sold |-> 9]
                  ELSE [date |-> i, temperature |-> 10, rainfall |-> 0,
                        congestion_index |-> 80, product |-> "P2", location |-> "L1",
                        units_sold |-> 4]]]

LongHistories == {LongHistory(SeedRows + 1), LongHistory(RecentRows + 1)}

Histories == {NoTable} \cup LongHistories
                 \cup UNION {HistoriesOf(cols) : cols \in HistoryShapes}

InitProject ==
    /\ history \in Histories
    /\ horizon_days \in 1..MaxHorizon
    /\ future_df = NotProjected
    /\ forecast_model = "absent"
    /\ risk_model = "absent"
    /\ demand_call = NotForecast
    /\ risk_call = NotPredicted
    /\ dates = <<>>
    /\ demand = <<>>
    /\ risk = <<>>
    /\ threshold \in Thresholds
    /\ page = "forecast_and_risk"
    /\ window = NotCalled
    /\ hybrid = NoHybrid
    /\ recommendation = NoRecommendation
    /\ NoScenarioCall
    /\ RegistryLoaded
    /\ NoPipeline

CreateFutureDataframe ==
    /\ future_df.outcome = "not_called"
    /\ At("create_future_dataframe")
    /\ \E now \in Clock, validates \in BOOLEAN :
          future_df' = create_future_dataframe(history, horizon_days, now, validates)
    /\ history' = historical_df_after_projection(history)
    /\ dates' = IF "date" \in future_df'.columns THEN Column(future_df'.rows, "date")
                ELSE <<>>
    /\ Goto(IF future_df'.outcome # "returned" THEN "failed"
            ELSE IF ShouldStop(future_df') THEN "stopped" ELSE "forecast_demand")
    /\ UNCHANGED <<inputVars, rerunVars, page, demand, risk, threshold, window, hybrid, scenario_type, severity,
                   modified_demand, modified_risk, applied, recommendation, registryVars,
                   horizon_days, forecast_model, risk_model, demand_call, risk_call>>

NextProject == CreateFutureDataframe

SpecProject == InitProject /\ [][NextProject]_vars

(* create_future_dataframe handed a negative horizon *)

InitMalformed ==
    /\ history \in Histories
    /\ horizon_days \in {0 - 2, 0 - 1}
    /\ future_df = NotProjected
    /\ forecast_model = "absent"
    /\ risk_model = "absent"
    /\ demand_call = NotForecast
    /\ risk_call = NotPredicted
    /\ dates = <<>>
    /\ demand = <<>>
    /\ risk = <<>>
    /\ threshold \in Thresholds
    /\ page = "forecast_and_risk"
    /\ window = NotCalled
    /\ hybrid = NoHybrid
    /\ recommendation = NoRecommendation
    /\ NoScenarioCall
    /\ RegistryLoaded
    /\ NoPipeline

SpecMalformed == InitMalformed /\ [][NextProject]_vars

(* filter_data on the loaded dataset *)

Products == {"", "All", "P1", "P3"}

Locations == {"All", "L1", "L2"}

InitFilter ==
    /\ dataset \in Histories
    /\ selection \in [product : Products, location : Locations]
    /\ pc = "filter_data"
    /\ demand_rerun = NotForecast
    /\ risk_rerun = NotPredicted
    /\ dates = <<>>
    /\ demand = <<>>
    /\ risk = <<>>
    /\ threshold \in Thresholds
    /\ page = "forecast_and_risk"
    /\ window = NotCalled
    /\ hybrid = NoHybrid
    /\ recommendation = NoRecommendation
    /\ NoScenarioCall
    /\ RegistryLoaded
    /\ NoForecastCall

FilterData ==
    /\ pc = "filter_data"
    /\ LET r == filter_data(dataset, selection.product, selection.location)
       IN  /\ history' = r.table
           /\ pc' = IF r.outcome = "returned" THEN "done" ELSE "failed"
    /\ dataset' = df_after_filter_data(dataset)
    /\ UNCHANGED <<selection, rerunVars, page, dates, demand, risk, threshold, window,
                   hybrid, scenario_type, severity, modified_demand, modified_risk,
                   applied, recommendation, registryVars, horizon_days, future_df,
                   forecast_model, risk_model, demand_call, risk_call>>

NextFilter == FilterData

SpecFilter == InitFilter /\ [][NextFilter]_vars

(* forecast_demand and predict_disruption on a table of future rows *)

\* Raw outputs of a demand predictor, in hundredths of a unit
RawDemandLevels == {0 - 500, 12000}

\* Draws of np.random.uniform(0.1, 0.4), in hundredths
UniformLevels == {10, 30, 39}

\* Positive-class probabilities of predict_proba, in hundredths
ProbabilityLevels == {0, 45, 100}

\* Raw outputs of a risk predictor without predict_proba, in hundredths
RawRiskOutputs == {0 - 20, 45, 130}

Raises == [raises |-> TRUE, output |-> <<>>]

PredictorOutcomes(levels, n) ==
    {Raises} \cup {[raises |-> FALSE, output |-> out] : out \in SeqsOfLen(levels, n)}

\* The predictor is consulted only when a model is loaded, the random
\* generator only when none is
OutcomesOf(model, levels, n) ==
    IF model = "absent" THEN {Raises} ELSE PredictorOutcomes(levels, n)

DrawsFor(model, n) ==
    IF model = "absent" THEN SeqsOfLen(UniformLevels, n) ELSE {<<>>}

ForecastModels == {"absent", "loaded"}

RiskModels == {"absent", "classifier", "regressor"}

ExampleHistories ==
    {[none |-> FALSE, columns |-> cols,
      rows |-> <<Restrict([date |-> 5, temperature |-> 31, rainfall |-> 0,
                           congestion_index |-> 80, product |-> "P1",
                           location |-> "L1", units_sold |-> 9], cols)>>] :
        cols \in HistoryShapes}

RiskSourceColumns == {"date", "temperature", "rainfall", "congestion_index"}

\* A table with none of the columns either function looks for
BareTable(n) == [outcome |-> "returned", columns |-> {"units_sold"},
                 rows |-> [i \in 1..n |-> [c \in {"units_sold"} |-> Whole(9)]]]

\* One-row tables whose cells lie at and around the indicator boundaries
BoundaryTables ==
    {[outcome |-> "returned", columns |-> RiskSourceColumns,
      rows |-> <<[date |-> d, temperature |-> t, rainfall |-> r,
                  congestion_index |-> c]>>] :
        d \in {4, 5, 6, 7},
        t \in {Whole(0 - 1), Whole(0), Whole(35), [num |-> 71, den |-> 2], Whole(36)},
        r \in {Whole(50), Whole(51)},
        c \in {Whole(70), Whole(71)}}

\* A table with only some of the columns predict_disruption looks for
PartialTable(n) ==
    [outcome |-> "returned", columns |-> {"temperature", "units_sold"},
     rows |-> [i \in 1..n |-> [temperature |-> Whole(36), units_sold |-> Whole(9)]]]

FutureTables ==
    {create_future_dataframe(h, n, 6, TRUE) : h \in ExampleHistories, n \in 1..MaxHorizon}
        \cup {EmptyDataFrame} \cup {BareTable(n) : n \in 1..MaxHorizon}
        \cup BoundaryTables \cup {PartialTable(n) : n \in 1..MaxHorizon}

InitPredict ==
    /\ future_df \in FutureTables
    /\ forecast_model \in ForecastModels
    /\ risk_model \in RiskModels
    /\ history = NoTable
    /\ horizon_days = Len(future_df.rows)
    /\ demand_call = NotForecast
    /\ risk_call = NotPredicted
    /\ dates = IF "date" \in future_df.columns THEN Column(future_df.rows, "date")
               ELSE <<>>
    /\ demand = <<>>
    /\ risk = <<>>
    /\ threshold \in Thresholds
    /\ page = "forecast_and_risk"
    /\ window = NotCalled
    /\ hybrid = NoHybrid
    /\ recommendation = NoRecommendation
    /\ NoScenarioCall
    /\ RegistryLoaded
    /\ NoPipeline

ForecastDemand ==
    /\ future_df.outcome = "returned"
    /\ demand_call.outcome = "not_called"
    /\ At("forecast_demand")
    /\ \E predictor \in OutcomesOf(forecast_model, RawDemandLevels, Len(future_df.rows)) :
          demand_call' = forecast_demand(future_df, forecast_model, predictor)
    /\ demand' = demand_call'.values
    /\ future_df' = input_df_after_forecast_demand(future_df)
    /\ Goto("predict_disruption")
    /\ UNCHANGED <<inputVars, rerunVars, page, dates, risk, threshold, window, hybrid, scenario_type, severity,
                   modified_demand, modified_risk, applied, recommendation, registryVars,
                   history, horizon_days, forecast_model, risk_model, risk_call>>

PredictDisruption ==
    /\ future_df.outcome = "returned"
    /\ risk_call.outcome = "not_called"
    /\ At("predict_disruption")
    /\ \E uniform \in DrawsFor(risk_model, Len(future_df.rows)),
          predictor \in OutcomesOf(
              risk_model,
              IF risk_model = "classifier" THEN ProbabilityLevels ELSE RawRiskOutputs,
              Len(future_df.rows)) :
          risk_call' = predict_disruption(future_df, risk_model, uniform, predictor)
    /\ risk' = risk_call'.values
    /\ future_df' = input_df_after_predict_disruption(future_df)
    /\ Goto(IF page = "forecast_and_risk" THEN "calculate_safe_purchase_window"
            ELSE "apply_scenario")
    /\ UNCHANGED <<inputVars, rerunVars, page, dates, demand, threshold, window, hybrid, scenario_type, severity,
                   modified_demand, modified_risk, applied, recommendation, registryVars,
                   history, horizon_days, forecast_model, risk_model, demand_call>>

NextPredict == ForecastDemand \/ PredictDisruption

SpecPredict == InitPredict /\ [][NextPredict]_vars

(* The two predictions run a second time on the same table and models *)

\* What the loaded model did on X the first time; the same model on the same
\* X does it again
SamePredictor(call) == [raises |-> call.raised, output |-> call.raw]

ForecastDemandAgain ==
    /\ pc = "idle"
    /\ demand_call.outcome = "returned"
    /\ demand_rerun.outcome = "not_called"
    /\ demand_rerun' = forecast_demand(future_df, forecast_model, SamePredictor(demand_call))
    /\ future_df' = input_df_after_forecast_demand(future_df)
    /\ UNCHANGED <<inputVars, risk_rerun, pc, page, dates, demand, risk, threshold, window,
                   hybrid, scenario_type, severity, modified_demand, modified_risk,
                   applied, recommendation, registryVars, history, horizon_days,
                   forecast_model, risk_model, demand_call, risk_call>>

PredictDisruptionAgain ==
    /\ pc = "idle"
    /\ risk_call.outcome = "returned"
    /\ risk_rerun.outcome = "not_called"
    /\ \E uniform \in DrawsFor(risk_model, Len(future_df.rows)) :
          risk_rerun' = predict_disruption(future_df, risk_model, uniform,
                                           SamePredictor(risk_call))
    /\ future_df' = input_df_after_predict_disruption(future_df)
    /\ UNCHANGED <<inputVars, demand_rerun, pc, page, dates, demand, risk, threshold,
                   window, hybrid, scenario_type, severity, modified_demand,
                   modified_risk, applied, recommendation, registryVars, history,
                   horizon_days, forecast_model, risk_model, demand_call, risk_call>>

NextRerun == ForecastDemand \/ PredictDisruption \/ ForecastDemandAgain
                 \/ PredictDisruptionAgain

SpecRerun == InitPredict /\ [][NextRerun]_vars

(* The run block of page 2 and of page 5, from the projection on *)

PipelineHistories ==
    {h \in ExampleHistories : "units_sold" \in h.columns /\ "product" \in h.columns}
        \cup {LongHistory(SeedRows + 1), NoTable,
              [none |-> FALSE, columns |-> {"date", "units_sold"}, rows |-> <<>>]}

InitPipeline ==
    /\ page \in {"forecast_and_risk", "scenario_simulation"}
    /\ history \in PipelineHistories
    /\ horizon_days \in 1..MaxHorizon
    /\ forecast_model \in ForecastModels
    /\ risk_model \in RiskModels
    /\ threshold \in Thresholds
    /\ pc = "create_future_dataframe"
    /\ future_df = NotProjected
    /\ demand_call = NotForecast
    /\ risk_call = NotPredicted
    /\ demand_rerun = NotForecast
    /\ risk_rerun = NotPredicted
    /\ dataset = NoTable
    /\ selection = [product |-> "All", location |-> "All"]
    /\ dates = <<>>
    /\ demand = <<>>
    /\ risk = <<>>
    /\ window = NotCalled
    /\ hybrid = NoHybrid
    /\ recommendation = NoRecommendation
    /\ NoScenarioCall
    /\ RegistryLoaded

NextPipeline ==
    \/ CreateFutureDataframe
    \/ ForecastDemand
    \/ PredictDisruption
    \/ CalculateSafePurchaseWindow
    \/ HybridRecommendation
    \/ ApplyScenario
    \/ GetRecommendation

SpecPipeline == InitPipeline /\ [][NextPipeline]_vars

(* The core operations on a caller's table: filter_data and the run blocks *)

InitCore == InitFilter \/ InitPipeline

NextCore == FilterData \/ NextPipeline

SpecCore == InitCore /\ [][NextCore]_vars

(* The recommendation requests of both pages together *)

Init == InitWindow \/ InitScenario \/ InitRecommend

Next == CalculateSafePurchaseWindow \/ HybridRecommendation \/ ApplyScenario
            \/ GetRecommendation

Spec == Init /\ [][Next]_vars

----------------------------------------------------------------------------
(* Properties.  Runs of safe days are described here directly on the risk   *)
(* series, by 0-based first and last index, not through the search's code.  *)

IsSafeRun(r, t, a, b) ==
    /\ 0 <= a /\ a <= b /\ b < Len(r)
    /\ \A i \in a..b : r[i + 1] < t

NoSafeIndex(r, t) == \A i \in 1..Len(r) : ~(r[i] < t)

\* [a, b] is the leftmost among the longest safe runs
IsLeftmostLongestRun(r, t, a, b) ==
    /\ IsSafeRun(r, t, a, b)
    /\ \A a2 \in 0..(Len(r) - 1), b2 \in 0..(Len(r) - 1) :
          IsSafeRun(r, t, a2, b2) =>
              \/ b2 - a2 < b - a
              \/ (b2 - a2 = b - a /\ a2 >= a)

WindowFound == window.outcome = "returned" /\ window.num_safe_days > 0

\* C1: a returned window covers contiguous positions start..end whose risk is
\* all below the threshold, its length is the number of those positions, no
\* safe run of the series is longer, and the documented example series yields
\* indices 5..7 with length 3.
C1_WindowIsLongestSafeRun ==
    WindowFound =>
        /\ IsSafeRun(risk, threshold, window.start_idx, window.end_idx)
        /\ window.num_safe_days = window.end_idx - window.start_idx + 1
        /\ window.start_date = dates[window.start_idx + 1]
        /\ window.end_date = dates[window.end_idx + 1]
        /\ \A a \in 0..(Len(risk) - 1), b \in 0..(Len(risk) - 1) :
              IsSafeRun(risk, threshold, a, b) => b - a + 1 <= window.num_safe_days
        /\ (risk = ExampleRisk /\ threshold = 30) =>
              (window.start_idx = 5 /\ window.end_idx = 7 /\ window.num_safe_days = 3)

C1_Witness ==
    /\ WindowFound
    /\ risk = ExampleRisk
    /\ window.num_safe_days = 3

\* C2: among safe runs of the greatest length the returned window is the one
\* that starts earliest.
C2_LeftmostAmongLongest ==
    WindowFound =>
        \A a \in 0..(Len(risk) - 1) :
            IsSafeRun(risk, threshold, a, a + window.num_safe_days - 1)
                => window.start_idx <= a

C2_Witness ==
    /\ WindowFound
    /\ \E a \in 0..(Len(risk) - 1) :
          /\ a > window.end_idx
          /\ IsSafeRun(risk, threshold, a, a + window.num_safe_days - 1)

\* C3: a day whose risk equals the threshold is never inside a returned
\* window, and a series whose every value equals the threshold has no window.
C3_ThresholdIsStrict ==
    /\ WindowFound =>
          \A i \in window.start_idx..window.end_idx : risk[i + 1] # threshold
    /\ (window.outcome # "not_called" /\ \A i \in 1..Len(risk) : risk[i] = threshold)
          => window = NoWindow

C3_Witness ==
    /\ risk = <<30, 30>>
    /\ threshold = 30
    /\ Len(dates) = 2
    /\ window = NoWindow

NoWindowCase == Len(dates) = 0 \/ Len(risk) = 0 \/ NoSafeIndex(risk, threshold)

\* C4 as stated: the sentinel is returned exactly in the three no-window
\* cases, and every other call returns non-None dates and a length >= 1.
C4_SentinelExactlyWhenNoWindow ==
    window.outcome # "not_called" =>
        IF NoWindowCase
        THEN window = NoWindow
        ELSE /\ window.outcome = "returned"
             /\ window.start_date # None
             /\ window.end_date # None
             /\ window.num_safe_days >= 1

\* C4 amended: the sentinel is returned exactly in the three no-window cases;
\* otherwise the call returns non-None dates and a length >= 1 when the
\* leftmost longest safe run lies inside the dates sequence, and raises
\* IndexError when that run reaches past the end of dates.
C4_SentinelOrWindowOrIndexError ==
    window.outcome # "not_called" =>
        /\ (window = NoWindow) <=> NoWindowCase
        /\ ~NoWindowCase =>
              \E a \in 0..(Len(risk) - 1), b \in 0..(Len(risk) - 1) :
                  /\ IsLeftmostLongestRun(risk, threshold, a, b)
                  /\ IF b < Len(dates)
                     THEN /\ window.outcome = "returned"
                          /\ window.start_date # None
                          /\ window.end_date # None
                          /\ window.num_safe_days >= 1
                     ELSE window.outcome = "IndexError"
        /\ Len(dates) >= Len(risk) => window.outcome = "returned"

C4_Witness ==
    /\ window.outcome = "IndexError"
    /\ Len(dates) > 0
    /\ Len(dates) < Len(risk)

\* Sum of s over the 0-based positions a..b
RECURSIVE SumRange(_, _, _)
SumRange(s, a, b) == IF a > b THEN 0 ELSE s[a + 1] + SumRange(s, a + 1, b)

\* dates and the adjusted series are index-aligned columns of one forecast
Aligned ==
    /\ Len(dates) = Len(modified_risk)
    /\ Len(modified_demand) = Len(modified_risk)

WindowRecommended ==
    /\ Aligned
    /\ recommendation.outcome = "returned"
    /\ recommendation.kind = "window"

\* C5: on index-aligned dates and series, a window recommendation reports the window of the safe-window search on
\* the adjusted risk: the leftmost longest safe run's first date, last date
\* and length, so every day from From to To has adjusted risk below threshold.
C5_RecommendationReportsSearchWindow ==
    WindowRecommended =>
        \A a \in 0..(Len(modified_risk) - 1), b \in 0..(Len(modified_risk) - 1) :
            IsLeftmostLongestRun(modified_risk, threshold, a, b) =>
                /\ recommendation.from = dates[a + 1]
                /\ recommendation.to = dates[b + 1]
                /\ recommendation.duration = b - a + 1
                /\ \A i \in 1..Len(dates) :
                      (/\ i <= Len(modified_risk)
                       /\ recommendation.from <= dates[i]
                       /\ dates[i] <= recommendation.to)
                          => modified_risk[i] < threshold

\* C6: on index-aligned dates and series, when a window exists the reported mean demand is the mean of the
\* demand of the days inside the window, and the suggested order quantity is
\* the sum of the demand of those days times 1.10; stated of the scenario
\* recommendation and of the page-2 recommendation.
C6_DemandStatsAreWindowOnly ==
    /\ WindowRecommended =>
          \A a \in 0..(Len(modified_risk) - 1), b \in 0..(Len(modified_risk) - 1) :
              IsLeftmostLongestRun(modified_risk, threshold, a, b) =>
                  RatEq(recommendation.avg_demand,
                        [num |-> SumRange(modified_demand, a, b), den |-> b - a + 1])
    /\ hybrid.kind = "window" =>
          \A a \in 0..(Len(risk) - 1), b \in 0..(Len(risk) - 1) :
              IsLeftmostLongestRun(risk, threshold, a, b) =>
                  /\ RatEq(hybrid.avg_safe_demand,
                           [num |-> SumRange(demand, a, b), den |-> b - a + 1])
                  /\ RatEq(hybrid.suggested_quantity,
                           [num |-> 110 * SumRange(demand, a, b), den |-> 100])

\* C7: on index-aligned dates and series, get_recommendation gives the high-alert text, without dates, exactly
\* when no index of the adjusted risk is below the threshold, and a window
\* recommendation with both dates otherwise.
C7_HighAlertIffNoSafeIndex ==
    (Aligned /\ recommendation.outcome # "not_called") =>
        IF NoSafeIndex(modified_risk, threshold)
        THEN /\ recommendation.outcome = "returned"
             /\ recommendation.kind = "high_alert"
             /\ recommendation.from = None
             /\ recommendation.to = None
        ELSE /\ recommendation.outcome = "returned"
             /\ recommendation.kind = "window"
             /\ recommendation.from # None
             /\ recommendation.to # None

Registered == scenario_type \in ScenarioIds /\ severity \in Severities

Min2(x, y) == IF x < y THEN x ELSE y
Max2(x, y) == IF x > y THEN x ELSE y

\* C8: for a registered scenario and a severity of low, medium or high, the
\* outputs have the inputs' length and order, adjusted demand is demand times
\* the severity's multiplier and adjusted risk is min(1, max(0, risk + the
\* severity's adjustment)), index by index.
C8_ApplyScenarioFormula ==
    (applied.outcome = "returned" /\ Registered) =>
        LET mult == SCENARIOS[scenario_type].demand_multiplier[severity]
            adj == SCENARIOS[scenario_type].risk_adjustment[severity]
        IN  /\ Len(modified_demand) = Len(demand)
            /\ Len(modified_risk) = Len(risk)
            /\ \A i \in 1..Len(demand) : modified_demand[i] * 100 = demand[i] * mult
            /\ \A i \in 1..Len(risk) :
                  modified_risk[i] = Min2(100, Max2(0, risk[i] + adj))

C8_Witness ==
    /\ applied.outcome = "returned"
    /\ scenario_type = "bad_weather"
    /\ severity = "medium"
    /\ demand = <<10000, 5000>>
    /\ modified_demand = <<8500, 4250>>
    /\ risk = <<90, 20>>
    /\ modified_risk = <<100, 40>>

C10_UnknownScenarioIsIdentityWithDiagnostic ==
    (applied.outcome # "not_called" /\ ~Registered) =>
        /\ applied.outcome = "returned"
        /\ modified_demand = demand
        /\ modified_risk = risk
        /\ applied.diagnostic = "UnknownScenario"

----------------------------------------------------------------------------
(* The scenario registry *)

RegisteredIds == {"festival_spike", "bad_weather", "logistics_delay", "promotion",
                  "competitor_action"}

DisplayName(id) ==
    CASE id = "festival_spike" -> "Festival Demand Spike"
      [] id = "bad_weather" -> "Bad Weather Conditions"
      [] id = "logistics_delay" -> "Logistics Delay"
      [] id = "promotion" -> "Promotional Campaign"
      [] id = "competitor_action" -> "Competitor Action"

\* C11: the registry is static. It holds exactly the five identifiers, each
\* with a demand multiplier and a risk adjustment for low, medium and high;
\* get_available_scenarios returns exactly those five identifiers mapped to
\* their display names; and no operation of the simulator adds, removes or
\* changes an entry, so the registry equals the class body's at every state.
C11_RegistryIsStaticFiveEntries ==
    /\ registry = SCENARIOS
    /\ DOMAIN registry = RegisteredIds
    /\ \A id \in DOMAIN registry :
          /\ DOMAIN registry[id].demand_multiplier = Severities
          /\ DOMAIN registry[id].risk_adjustment = Severities
    /\ available.outcome = "returned" =>
          /\ DOMAIN available.value = RegisteredIds
          /\ \A id \in RegisteredIds : available.value[id] = DisplayName(id)

C11_Witness ==
    /\ available.outcome = "returned"
    /\ described.outcome = "returned"
    /\ applied.outcome = "returned"
    /\ recommendation.outcome # "not_called"
    /\ scenario_type = "nonexistent"


----------------------------------------------------------------------------
(* The projected table *)

Projected == future_df.outcome = "returned"

EmptyHistory == history.none \/ Len(history.rows) = 0

\* C12: for a horizon H > 0 the projection returns exactly H rows, whatever
\* the history: empty, absent, or lacking optional columns.
C12_ProjectionHasHorizonRows ==
    (Projected /\ horizon_days > 0) => Len(future_df.rows) = horizon_days

\* C14: for a non-empty history with a date column, row i (from 0) carries
\* the date max(history.date) + (i + 1) days; the dates strictly increase by
\* one day and none repeats a historical date.
C14_DatesFollowLastHistoricalDay ==
    (Projected /\ ~EmptyHistory /\ "date" \in history.columns) =>
        LET last == MaxOf(Column(history.rows, "date"))
        IN  /\ Len(future_df.rows) = horizon_days
            /\ \A i \in 0..(horizon_days - 1) : future_df.rows[i + 1]["date"] = last + (i + 1)
            /\ \A i \in 1..(horizon_days - 1) :
                  future_df.rows[i + 1]["date"] = future_df.rows[i]["date"] + 1
            /\ \A i \in 1..horizon_days, k \in 1..Len(history.rows) :
                  future_df.rows[i]["date"] > history.rows[k]["date"]

C14_Witness ==
    /\ Projected
    /\ Len(history.rows) = 2
    /\ "date" \in history.columns
    /\ history.rows[1]["date"] = 5
    /\ history.rows[2]["date"] = 3
    /\ horizon_days = 3
    /\ dates = <<6, 7, 8>>

\* C15: for an empty history the projection either anchors the dates to the
\* current date and returns horizon_days rows, or fails with
\* InsufficientHistory; it returns nothing else.
C15_EmptyHistoryAnchorsToNowOrFails ==
    (future_df.outcome # "not_called" /\ EmptyHistory) =>
        \/ future_df.outcome = "InsufficientHistory"
        \/ /\ future_df.outcome = "returned"
           /\ Len(future_df.rows) = horizon_days
           /\ \E now \in Clock :
                 \A i \in 1..horizon_days : future_df.rows[i]["date"] = now + i


----------------------------------------------------------------------------
(* The two prediction series *)

DemandReturned == demand_call.outcome = "returned"

RiskReturned == risk_call.outcome = "returned"

Rows == Len(future_df.rows)

\* C13: forecast_demand and predict_disruption each return exactly one value
\* per input row, in row order, on every path (model absent, no usable
\* feature columns, predictor success, predictor exception), so the dates,
\* demand and risk series of one analysis have equal length.
C13_OneValuePerRow ==
    /\ DemandReturned =>
          /\ Len(demand_call.values) = Rows
          /\ demand_call.path = "predicted" =>
                \A i \in 1..Rows :
                    demand_call.values[i] = Max2(demand_call.raw[i], 0)
    /\ RiskReturned =>
          /\ Len(risk_call.values) = Rows
          /\ (risk_call.path = "predicted" /\ risk_model = "classifier") =>
                \A i \in 1..Rows : risk_call.values[i] = risk_call.raw[i]
    /\ (DemandReturned /\ RiskReturned /\ "date" \in future_df.columns) =>
          /\ Len(dates) = Len(demand)
          /\ Len(demand) = Len(risk)

C13_Witness ==
    /\ Rows = 3
    /\ demand_call.path = "exception"
    /\ risk_call.path = "predicted"
    /\ risk_call.raw = <<100, 0, 45>>
    /\ Len(dates) = 3
    /\ Len(demand) = 3
    /\ risk = <<100, 0, 45>>

\* C16: every value forecast_demand returns is >= 0, whatever the predictor
\* returns, a negative raw prediction included, and on every fallback path.
C16_DemandIsNonNegative ==
    DemandReturned => \A i \in 1..Len(demand_call.values) : demand_call.values[i] >= 0

C16_Witness ==
    /\ demand_call.path = "predicted"
    /\ demand_call.raw = <<0 - 500, 12000>>
    /\ demand_call.values = <<0, 12000>>

\* C17: every value predict_disruption returns lies in [0, 1] on every path:
\* model absent, no usable features, a predictor with predict_proba, one
\* without it (raw output clamped), and a predictor that raises.
C17_RiskIsProbability ==
    RiskReturned =>
        \A i \in 1..Len(risk_call.values) :
            risk_call.values[i] >= 0 /\ risk_call.values[i] <= 100

C17_Witness ==
    /\ risk_call.path = "predicted"
    /\ risk_model = "regressor"
    /\ risk_call.raw = <<130, 0 - 20, 45>>
    /\ risk_call.values = <<100, 0, 45>>

\* C18: with no demand model loaded, forecast_demand returns an all-zero
\* series with one value per row together with a ModelNotLoaded diagnostic,
\* and the caller can tell that outcome from the one a failing predictor gives.
C18_ModelNotLoadedIsReported ==
    /\ (DemandReturned /\ forecast_model = "absent") =>
          /\ demand_call.values = np_zeros(Rows)
          /\ demand_call.diagnostic = "ModelNotLoaded"
    /\ (DemandReturned /\ demand_call.raised) =>
          demand_call.diagnostic # "ModelNotLoaded"

\* C19: with no risk model loaded, predict_disruption returns the constant
\* series whose every value is exactly 0.3, one value per row.
C19_NoRiskModelGivesConstantSeries ==
    (RiskReturned /\ risk_model = "absent") =>
        /\ Len(risk_call.values) = Rows
        /\ \A i \in 1..Rows : risk_call.values[i] = 30

\* C20: when the loaded predictor raises, forecast_demand returns an all-zero
\* series and predict_disruption a constant 0.3 series, each as long as the
\* input, and the exception goes no further: both calls return.
C20_PredictorExceptionFallsBack ==
    /\ demand_call.raised =>
          /\ demand_call.outcome = "returned"
          /\ Len(demand_call.values) = Rows
          /\ \A i \in 1..Rows : demand_call.values[i] = 0
    /\ risk_call.raised =>
          /\ risk_call.outcome = "returned"
          /\ Len(risk_call.values) = Rows
          /\ \A i \in 1..Rows : risk_call.values[i] = 30

C20_Witness ==
    /\ Rows = 2
    /\ demand_call.raised
    /\ risk_call.raised
    /\ demand = <<0, 0>>
    /\ risk = <<30, 30>>


----------------------------------------------------------------------------
(* Malformed caller input *)

Rejected(outcome) == outcome \notin {"not_called", "returned"}

\* C21: malformed caller input fails fast with a precondition violation and
\* produces no result: a negative horizon handed to create_future_dataframe
\* is rejected, and so are dates and risk series of different lengths handed
\* to calculate_safe_purchase_window.
C21_MalformedInputIsRejected ==
    /\ (future_df.outcome # "not_called" /\ horizon_days < 0) =>
          Rejected(future_df.outcome)
    /\ (window.outcome # "not_called" /\ Len(dates) # Len(risk)) =>
          Rejected(window.outcome)


----------------------------------------------------------------------------
(* The caller's tables *)

\* C22: no core operation mutates the table it is handed: across
\* filter_data, create_future_dataframe, forecast_demand and
\* predict_disruption the dataset, the historical table and the table of
\* future rows keep their rows, columns and values.
C22_InputTablesAreNotMutated ==
    [][/\ dataset' = dataset
       /\ pc # "filter_data" => history' = history
       /\ future_df.outcome = "returned" => future_df' = future_df]_vars

C22_Witness ==
    /\ pc = "done"
    /\ Len(history.rows) = 1
    /\ demand_call.path = "predicted"
    /\ risk_call.path = "predicted"
    /\ Len(future_df.rows) = 3
    /\ future_df.columns = FutureColumns \cup {"product", "location"}


----------------------------------------------------------------------------
(* Repeated runs *)

\* C23: each analysis is a pure function of its inputs: a second run of the
\* demand forecast and of the risk prediction on the same table and the same
\* model state, the state with no model loaded included, returns the values
\* the first run returned.
C23_RerunGivesSameOutput ==
    /\ demand_rerun.outcome = "returned" => demand_rerun.values = demand_call.values
    /\ risk_rerun.outcome = "returned" => risk_rerun.values = risk_call.values


----------------------------------------------------------------------------
(* The run block end to end *)

ProjectedDates == {future_df.rows[i]["date"] : i \in 1..Len(future_df.rows)}

\* C24: in the pipeline projection, demand, risk, window search, the window
\* is the no-window sentinel, or its start and end dates are dates of the
\* projected horizon, the start is not after the end, and its length is the
\* number of calendar days from start to end inclusive.
C24_WindowLiesInProjectedHorizon ==
    (pc # "idle" /\ page = "forecast_and_risk" /\ window.outcome # "not_called") =>
        \/ window = NoWindow
        \/ /\ window.outcome = "returned"
           /\ window.start_date \in ProjectedDates
           /\ window.end_date \in ProjectedDates
           /\ window.start_date <= window.end_date
           /\ window.num_safe_days = window.end_date - window.start_date + 1

C24_Witness ==
    /\ pc = "done"
    /\ page = "forecast_and_risk"
    /\ Len(history.rows) = 1
    /\ "date" \in history.columns
    /\ history.rows[1]["date"] = 5
    /\ dates = <<6, 7, 8>>
    /\ risk = <<45, 0, 0>>
    /\ window.start_date = 7
    /\ window.end_date = 8
    /\ window.num_safe_days = 2


Ran(outcome) == outcome # "not_called"

EmptyProjection == future_df.outcome = "returned" /\ Len(future_df.rows) = 0

\* C25: the run block runs projection, then demand forecast, then risk
\* forecast, then the window search; scenario application, when used, comes
\* after both forecasts and before the recommendation; and when the
\* projection yields an empty table no later stage runs.
C25_StagesRunInOrder ==
    pc # "idle" =>
        /\ Ran(demand_call.outcome) => (Projected /\ ~EmptyProjection)
        /\ Ran(risk_call.outcome) => demand_call.outcome = "returned"
        /\ Ran(window.outcome) => risk_call.outcome = "returned"
        /\ Ran(applied.outcome) =>
              (demand_call.outcome = "returned" /\ risk_call.outcome = "returned")
        /\ Ran(recommendation.outcome) => applied.outcome = "returned"
        /\ hybrid.kind # "not_shown" => window.outcome = "returned"
        /\ EmptyProjection =>
              /\ pc = "stopped"
              /\ ~Ran(demand_call.outcome)
              /\ ~Ran(risk_call.outcome)
              /\ ~Ran(window.outcome)
              /\ ~Ran(applied.outcome)
              /\ ~Ran(recommendation.outcome)

C25_Witness ==
    /\ pc = "done"
    /\ page = "scenario_simulation"
    /\ Len(future_df.rows) = 2
    /\ demand_call.path = "predicted"
    /\ risk_call.path = "predicted"
    /\ applied.outcome = "returned"
    /\ scenario_type = "bad_weather"
    /\ recommendation.outcome = "returned"

C25_StoppedOnEmptyProjection ==
    /\ pc = "stopped"
    /\ EmptyProjection
    /\ horizon_days = 3


----------------------------------------------------------------------------
(* The cells of a projected row *)

\* Mean of column c over the last n rows of the history, all rows if fewer
TrailingMean(c, n) ==
    LET col == Column(history.rows, c)
        first == Max2(1, Len(col) - n + 1)
    IN  [num |-> SumRange(col, first - 1, Len(col) - 1), den |-> Len(col) - first + 1]

ExpectedCell(c, n, default) ==
    IF c \in history.columns THEN TrailingMean(c, n) ELSE Whole(default)

----------------------------------------------------------------------------
(* The feature matrix of predict_disruption *)

BuiltX == risk_call.outcome = "returned" /\ risk_call.rows_passed > 0

\* C28: the derived risk indicators use strict boundaries: extreme_temp is 1
\* exactly when temperature < 0 or temperature > 35 (0 at exactly 0 and 35),
\* heavy_rain exactly when rainfall > 50, high_congestion exactly when
\* congestion_index > 0.7, is_weekend exactly on Saturday and Sunday.
C28_IndicatorsUseStrictBoundaries ==
    (BuiltX /\ RiskSourceColumns \subseteq future_df.columns) =>
        \A i \in 1..Len(future_df.rows) :
            LET row == future_df.rows[i]
                x == risk_call.indicators[i]
                t == row["temperature"]
                r == row["rainfall"]
                c == row["congestion_index"]
            IN  /\ x["extreme_temp"] \in {0, 1}
                /\ x["extreme_temp"] = 1 <=> (t.num < 0 \/ t.num > 35 * t.den)
                /\ x["heavy_rain"] \in {0, 1}
                /\ x["heavy_rain"] = 1 <=> r.num > 50 * r.den
                /\ x["high_congestion"] \in {0, 1}
                /\ x["high_congestion"] = 1 <=> c.num > 70 * c.den
                /\ x["is_weekend"] \in {0, 1}
                /\ x["is_weekend"] = 1 <=> (row["date"] % 7 = 5 \/ row["date"] % 7 = 6)

C28_Witness ==
    /\ BuiltX
    /\ future_df.columns = RiskSourceColumns
    /\ future_df.rows[1]["temperature"] = Whole(35)
    /\ future_df.rows[1]["rainfall"] = Whole(51)
    /\ future_df.rows[1]["congestion_index"] = Whole(70)
    /\ future_df.rows[1]["date"] = 5
    /\ risk_call.indicators[1]["extreme_temp"] = 0
    /\ risk_call.indicators[1]["heavy_rain"] = 1
    /\ risk_call.indicators[1]["high_congestion"] = 0
    /\ risk_call.indicators[1]["is_weekend"] = 1

\* C29: a feature missing from the input is handed to the predictor with
\* value 0 rather than dropped: the feature vector carries all nine expected
\* features in order, and as many rows as the input has.
C29_AllNineFeaturesArePassed ==
    (RiskReturned /\ risk_model # "absent") =>
        /\ risk_call.features = expected_features
        /\ risk_call.rows_passed = Rows


----------------------------------------------------------------------------
(* Scenarios and safe days *)

SafeSet(r, t) == {i \in 1..Len(r) : r[i] < t}

LongestWindow(r, t) == calculate_safe_purchase_window(DateRange(Len(r)), r, t).num_safe_days

BaselineInRange == \A i \in 1..Len(risk) : 0 <= risk[i] /\ risk[i] <= 100

ThresholdGrid == {5 * k : k \in 0..20}

\* C30: every registered scenario has a non-negative risk adjustment at every
\* severity, so for a baseline risk within [0, 1] the adjusted risk is at
\* least the baseline at every index; hence for any threshold applying a
\* registered scenario adds no safe day and does not lengthen the longest
\* safe window.
C30_ScenarioNeverAddsSafeDays ==
    /\ \A id \in DOMAIN registry, sv \in Severities :
          registry[id].risk_adjustment[sv] >= 0
    /\ (applied.outcome = "returned" /\ scenario_type \in DOMAIN registry
            /\ BaselineInRange) =>
          /\ Len(modified_risk) = Len(risk)
          /\ \A i \in 1..Len(risk) : modified_risk[i] >= risk[i]
          /\ \A t \in ThresholdGrid :
                /\ SafeSet(modified_risk, t) \subseteq SafeSet(risk, t)
                /\ Cardinality(SafeSet(modified_risk, t)) <= Cardinality(SafeSet(risk, t))
                /\ LongestWindow(modified_risk, t) <= LongestWindow(risk, t)

C30_Witness ==
    /\ applied.outcome = "returned"
    /\ scenario_type = "bad_weather"
    /\ severity = "high"
    /\ threshold = 30
    /\ risk = <<20, 20, 90, 20>>
    /\ modified_risk = <<55, 55, 100, 55>>
    /\ LongestWindow(risk, 30) = 2
    /\ LongestWindow(modified_risk, 30) = 0


====
